---- MODULE Spec2Model ----
(***************************************************************************)
(* A model of the csi-helper submission client, proxy policy, survey run    *)
(* and scheduler.                                                          *)
(*                                                                         *)
(*   UsabillaClient (src/src/usabilla-client.ts): the four-page submission *)
(*   protocol.  Every submitPageN builds its payload from the instance     *)
(*   fields and posts it; the part of submit() after the await runs when   *)
(*   the HTTP exchange settles, so a call is two atomic steps.  The caller *)
(*   is arbitrary: the class has no guard on the order of its calls.       *)
(*                                                                         *)
(*   ProxyManager (src/src/proxy-manager.ts): password selection by URL.   *)
(*   URLs are sequences of characters, and String.includes is a substring  *)
(*   search.                                                               *)
(*                                                                         *)
(*   Scheduler.executeTask and SurveyRunner (src/src/scheduler.ts,         *)
(*   src/src/survey-runner.ts): one survey run, a step for each await.     *)
(*                                                                         *)
(*   Scheduler timers (src/src/scheduler.ts): the cron and interval        *)
(*   callbacks on a clock that counts hours, the stop methods and the      *)
(*   shutdown handler; the cron tasks that are active next to the ones the *)
(*   map holds, and the runs in progress for each url.                     *)
(*                                                                         *)
(*   generateDailySchedule and weightedRandom (src/src/utils.ts), applied  *)
(*   to inputs drawn at the start, with Math.random() in hundredths.       *)
(*                                                                         *)
(*   ReportGenerator, monitorFailures and the daily report                 *)
(*   (src/src/report-generator.tsx, src/src/scheduler.ts): the counts of   *)
(*   the results, the alert, and the mail that is awaited before clear().  *)
(*                                                                         *)
(*   SurveyRunner.runSurvey of src/unnamed/part_001, which closes the page *)
(*   and the context in a finally block.                                   *)
(***************************************************************************)
EXTENDS Integers, Sequences, FiniteSets, Bags, TLC

\* ------------------------------------------------------------------ values

\* JavaScript null and undefined
Null == "null"
Absent == "undefined"

\* Bound of the exploration: the exchanges outstanding at one time
MaxInflight == 2

\* Inputs of the submitPageN calls
UrlArgs == {"https://www.opel.de/"}
Moods == {"5"}
Ratings == {"5"}
Vehicles == {"Opel"}
Goals == {"Information"}

\* The outcomes crypto.randomBytes(6).toString('hex') can have: any 12 hex
\* digits, two of them here.  Nothing in the code keeps a draw distinct from
\* an earlier one.
generateSessionId == {"0a1b2c3d4e5f", "a0b1c2d3e4f5"}

\* The ways one axios.post can end.  axios rejects on a timeout, on a refused
\* proxy connection and on a non-2xx status; otherwise it resolves with the
\* parsed body, which may be the JSON value null or an object with or without
\* id and sig.
TransportErrors == {"ECONNABORTED", "ECONNREFUSED", "ERR_BAD_RESPONSE"}
RespIds == {Absent, "id1", "id2"}
RespSigs == {Absent, "sig1"}
HttpOutcomes ==
    {[kind |-> "rejected", code |-> c, body |-> Absent, id |-> Absent, sig |-> Absent] :
        c \in TransportErrors}
    \cup {[kind |-> "resolved", code |-> "200", body |-> Null, id |-> Absent, sig |-> Absent]}
    \cup {[kind |-> "resolved", code |-> "200", body |-> "object", id |-> i, sig |-> s] :
        i \in RespIds, s \in RespSigs}

\* The error kinds the design classifies failures into
ErrorKinds == {"timeout", "proxy-refused", "malformed-response", "server-error"}

NoToken == [id |-> Null, sig |-> Null]
NoPayload ==
    [id |-> Null, sig |-> Null, type |-> "", subtype |-> "", v |-> 0, data |-> <<>>,
     timingKey |-> "", url |-> "", customData |-> <<>>, dataId |-> "", version |-> 0,
     done |-> FALSE]
\* auth: undefined in the proxy setting of an axios instance
NoAuth == [username |-> Absent, password |-> Absent]
NoOutcome == [kind |-> "none", code |-> Absent, body |-> Absent, id |-> Absent, sig |-> Absent]

VARIABLES
    sessionId,      \* UsabillaClient.sessionId
    currentId,      \* UsabillaClient.currentId
    currentSig,     \* UsabillaClient.currentSig
    inflight,       \* bag of the exchanges posted and not yet settled
    out,            \* the payload posted most recently
    last,           \* the exchange settled most recently
    drawn,          \* the latest value of generateSessionId()
    axiosInstance   \* UsabillaClient.axiosInstance: its proxy setting

clientVars ==
    <<sessionId, currentId, currentSig, inflight, out, last, drawn, axiosInstance>>

VARIABLES
    config,         \* ProxyManager.config
    currentUrl,     \* ProxyManager.currentUrl
    proxyServer     \* the descriptor returned by the latest getProxyServer call

proxyVars == <<config, currentUrl, proxyServer>>

VARIABLES
    proxySessionId, \* ProxyManager.sessionId
    sticky,         \* the descriptor returned by the latest getStickyProxyServer call
    agent           \* the outcome of the latest createProxyAgent call

stickyVars == <<proxySessionId, sticky, agent>>

managerVars == <<proxyVars, stickyVars>>

VARIABLES
    run,            \* the executeTask call in progress: its step, its url, the
                    \* proxy the browser was launched with, the clicks that landed
    browser,        \* SurveyRunner.browser of that call
    page,           \* the page runSurvey opened
    result,         \* result.status in runSurvey
    report          \* the status of the entry handed to addSurveyResult in its
                    \* latest call, or that the call threw

runVars == <<run, browser, page, result, report>>

VARIABLES
    now,            \* the hour of the day
    tasks,          \* Scheduler.tasks: the cron task stored under each taskId
    cronJobs,       \* the node-cron tasks that have not been stopped
    cronCalls,      \* the cron.schedule calls made, counted up to MaxCronCalls
    running,        \* per url, the executeTask calls that have started and not
                    \* ended, counted up to MaxRunning
    intervalTasks,  \* Scheduler.intervalTasks: the timer stored under each taskId
    pending,        \* the timers due in this hour that have not fired yet
    attemptsToday,  \* the executeTask calls started since midnight
    sinceStart,     \* per url, the hours since its latest executeTask started
    blockedUrl,     \* the url whose run met a block or challenge most recently
    sinceBlock,     \* the hours since then
    timers,         \* the setInterval timers that have not been cleared
    dateNow         \* the scheduleUrlAtInterval calls made, Date.now() in the
                    \* latest, whether an hour has passed since

schedVars ==
    <<now, tasks, cronJobs, cronCalls, running, intervalTasks, pending,
      attemptsToday, sinceStart, blockedUrl, sinceBlock, timers, dateNow>>

VARIABLES
    exited,         \* process.exit has been called
    generated,      \* the latest generateDailySchedule call: its argument, its entries
    weights,        \* the weights of the weightedRandom calls
    sample,         \* the latest weightedRandom call: Math.random(), the value returned
    results,        \* ReportGenerator.results: how many entries, how many successful
    alert,          \* what the latest tick of the failure monitor did
    delivery,       \* the daily report: whether its mail is being sent, how many
                    \* results the mail lists, how many results the latest
                    \* clear() removed that no mail listed
    visit           \* a runSurvey call on the runner that closes the page in a
                    \* finally block

appVars == <<exited, generated, weights, sample, results, alert, delivery, visit>>

vars == <<clientVars, managerVars, runVars, schedVars, appVars>>

\* ------------------------------------------------------------ UsabillaClient

\* JavaScript truthiness of a string-valued response field
Truthy(x) == x # Absent /\ x # Null /\ x # ""

\* The payload literal the four submitPageN methods share.  dataId is data.id;
\* timingKey is the one key of data.timing.  The timing value and the browser
\* string are fresh random draws in every payload and no field depends on
\* them, so the payload does not carry them.
UsabillaPayload(v, data, timingKey, url, done) ==
    [id |-> currentId, sig |-> currentSig, type |-> "campaign", subtype |-> "form",
     v |-> v, data |-> data, timingKey |-> timingKey, url |-> url,
     customData |-> <<>>, dataId |-> sessionId, version |-> 9, done |-> done]

submitPage1Payload(url, mood) ==
    UsabillaPayload(1, <<"mood", mood>>, "Satisfaction", url, FALSE)

submitPage2Payload(url, ratings) ==
    UsabillaPayload(2, <<"SAT_MatrixRating", ratings>>, "Sub-Satisfaction", url, FALSE)

\* submitPage3 with the done flag of the final page
submitPage3PayloadDone(url, netEasyScore) ==
    UsabillaPayload(3, <<"DIFF_FindInfo", <<>>, "Net_Easy_Score", netEasyScore>>,
                    "Efficiency", url, TRUE)

submitPage3Payload(url, netEasyScore) ==
    UsabillaPayload(3, <<"DIFF_FindInfo", <<>>, "Net_Easy_Score", netEasyScore>>,
                    "Efficiency", url, FALSE)

submitPage4Payload(url, userVehicle, goalVisit) ==
    UsabillaPayload(4, <<"USER_VEHICLE", userVehicle, "GOAL_Visit", goalVisit>>,
                    "Goal_Suggestions", url, TRUE)

\* An exchange on the wire: its page, and whether it belongs to the current
\* session (no resetSession since it was posted)
Exchange(payload) == [v |-> payload.v, current |-> TRUE]

\* The exchanges of the session that resetSession ends
Stale(x) == [x EXCEPT !.current = FALSE]

\* The proxy credential a request of the client goes out with: the auth of
\* the axios instance the constructor made
requestAuth == axiosInstance.auth

\* submit(), up to the await: the payload goes out
submitPost(payload) ==
    /\ BagCardinality(inflight) < MaxInflight
    /\ inflight' = inflight (+) SetToBag({Exchange(payload)})
    /\ out' = [posted |-> TRUE, payload |-> payload, current |-> TRUE,
               overlapped |-> (BagCardinality(inflight) > 0),
               auth |-> requestAuth]
    /\ UNCHANGED <<sessionId, currentId, currentSig, last, drawn, axiosInstance,
                   managerVars, runVars, schedVars, appVars>>

submitPage1 == \E url \in UrlArgs, mood \in Moods :
    submitPost(submitPage1Payload(url, mood))

submitPage2 == \E url \in UrlArgs, r \in Ratings :
    submitPost(submitPage2Payload(url, <<r, r, r>>))

submitPage3 == \E url \in UrlArgs, r \in Ratings :
    submitPost(submitPage3Payload(url, r))

submitPage4 == \E url \in UrlArgs, veh \in Vehicles, goal \in Goals :
    submitPost(submitPage4Payload(url, veh, goal))

\* the test of line 198 with || in place of &&
ValidResponseEither(resp) == Truthy(resp.id) \/ Truthy(resp.sig)

\* the test of line 198
ValidResponse(resp) == Truthy(resp.id) /\ Truthy(resp.sig)

\* What the caller of submit() gets for one outcome of the post: the
\* response data, or the error that was caught and thrown again as it is.
submitSettlement(resp) ==
    IF resp.kind = "rejected"
    THEN [status |-> "rejected", value |-> NoToken, error |-> resp.code]
    ELSE IF resp.body = Null
    THEN [status |-> "rejected", value |-> NoToken, error |-> "TypeError"]
    ELSE IF ValidResponse(resp)
    THEN [status |-> "resolved", value |-> [id |-> resp.id, sig |-> resp.sig],
          error |-> Absent]
    ELSE [status |-> "rejected", value |-> NoToken,
          error |-> "Invalid response from Usabilla API"]

\* submit() storing the id of the response and not its sig
submitTokenIdOnly(resp) ==
    IF submitSettlement(resp).status = "resolved"
    THEN [id |-> resp.id, sig |-> currentSig]
    ELSE [id |-> currentId, sig |-> currentSig]

\* submit() dropping the stored token when the exchange fails
submitTokenDroppedOnFailure(resp) ==
    IF submitSettlement(resp).status = "resolved"
    THEN [id |-> resp.id, sig |-> resp.sig]
    ELSE NoToken

\* The token fields after the exchange settled
submitToken(resp) ==
    IF submitSettlement(resp).status = "resolved"
    THEN [id |-> resp.id, sig |-> resp.sig]
    ELSE [id |-> currentId, sig |-> currentSig]

\* submit(), after the await: one outstanding exchange settles
submit == \E x \in BagToSet(inflight), resp \in HttpOutcomes :
    LET s == submitSettlement(resp)
        t == submitToken(resp)
    IN /\ currentId' = t.id
       /\ currentSig' = t.sig
       /\ inflight' = inflight (-) SetToBag({x})
       /\ last' = [settled |-> TRUE, v |-> x.v, current |-> x.current,
                   response |-> resp, status |-> s.status, value |-> s.value,
                   error |-> s.error]
       /\ UNCHANGED <<sessionId, out, drawn, axiosInstance, managerVars, runVars,
                      schedVars, appVars>>

\* resetSession that clears the token and keeps the session id
resetSessionStateKeepId(newId) ==
    [currentId |-> Null, currentSig |-> Null, sessionId |-> sessionId]

\* resetSession that clears currentId and keeps currentSig
resetSessionStateKeepSig(newId) ==
    [currentId |-> Null, currentSig |-> currentSig, sessionId |-> newId]

resetSessionState(newId) ==
    [currentId |-> Null, currentSig |-> Null, sessionId |-> newId]

resetSession == \E newId \in generateSessionId :
    LET s == resetSessionState(newId)
    IN /\ currentId' = s.currentId
       /\ currentSig' = s.currentSig
       /\ sessionId' = s.sessionId
       /\ drawn' = newId
       /\ inflight' = BagOfAll(Stale, inflight)
       /\ out' = Stale(out)
       /\ last' = Stale(last)
       /\ UNCHANGED <<axiosInstance, managerVars, runVars, schedVars, appVars>>

\* The client after its constructor
ClientInit ==
    /\ sessionId \in generateSessionId
    /\ drawn = sessionId
    /\ currentId = Null
    /\ currentSig = Null
    /\ inflight = EmptyBag
    /\ out = [posted |-> FALSE, payload |-> NoPayload, current |-> FALSE,
              overlapped |-> FALSE, auth |-> NoAuth]
    /\ last = [settled |-> FALSE, v |-> 0, current |-> FALSE, response |-> NoOutcome,
               status |-> "none", value |-> NoToken, error |-> Absent]

\* -------------------------------------------------------------- ProxyManager

\* A URL is the sequence of its characters; the empty sequence stands for the
\* falsy values a url parameter or currentUrl can hold (undefined, null, "").
NoUrl == <<>>
UrlOpelDe ==
    <<"h", "t", "t", "p", "s", ":", "/", "/", "o", "p", "e", "l", ".", "d", "e", "/">>   \* https://opel.de/
UrlOpelDeBare ==
    <<"h", "t", "t", "p", "s", ":", "/", "/", "o", "p", "e", "l", ".", "d", "e">>   \* https://opel.de
UrlOpelFr ==
    <<"h", "t", "t", "p", "s", ":", "/", "/", "o", "p", "e", "l", ".", "f", "r", "/">>   \* https://opel.fr/
UrlOpelDev ==
    <<"h", "t", "t", "p", "s", ":", "/", "/", "o", "p", "e", "l", ".", "d", "e", "v", "/">>   \* https://opel.dev/
UrlFrDesign ==
    <<"h", "t", "t", "p", "s", ":", "/", "/", "o", "p", "e", "l", ".", "f", "r", "/", "a", ".", "d", "e", "s", "i", "g", "n">>   \* https://opel.fr/a.design
UrlDeCom ==
    <<"h", "t", "t", "p", "s", ":", "/", "/", "d", "e", ".", "c", "o", "m", "/">>   \* https://de.com/
TargetUrls == {UrlOpelDe, UrlOpelDeBare, UrlOpelFr, UrlOpelDev, UrlFrDesign, UrlDeCom}

\* ProxyConfig as getConfig() builds it: a variable that is not set in the
\* environment gives the empty string
Configs ==
    [host : {"geo.iproyal.com"}, port : {12321}, username : {"", "user"},
     passwordDE : {"", "secretDE"}, passwordNonDE : {"", "secretNonDE"}]
FullConfig ==
    [host |-> "geo.iproyal.com", port |-> 12321, username |-> "user",
     passwordDE |-> "secretDE", passwordNonDE |-> "secretNonDE"]

NoProxyServer ==
    [called |-> FALSE, target |-> NoUrl, server |-> "", username |-> Absent,
     password |-> Absent]

\* String.prototype.includes
includes(s, sub) ==
    \E i \in 1..(Len(s) - Len(sub) + 1) : SubSeq(s, i, i + Len(sub) - 1) = sub

DotDe == <<".", "d", "e">>

\* a || b on URLs
OrUrl(a, b) == IF a # NoUrl THEN a ELSE b

selectPassword(url) ==
    LET targetUrl == OrUrl(url, currentUrl)
    IN IF targetUrl # NoUrl /\ ~includes(targetUrl, DotDe)
       THEN config.passwordNonDE
       ELSE config.passwordDE

getProxyServerResult(url) ==
    LET targetUrl == OrUrl(url, currentUrl)
    IN IF config.username = "" \/ config.passwordDE = "" \/ config.passwordNonDE = ""
       THEN [called |-> TRUE, target |-> targetUrl, server |-> "http://host:port",
             username |-> Absent, password |-> Absent]
       ELSE [called |-> TRUE, target |-> targetUrl, server |-> "http://host:port",
             username |-> config.username, password |-> selectPassword(targetUrl)]

\* axios.create of the client's constructor: the auth of the proxy setting
axiosCreate(descriptor) ==
    [auth |-> IF Truthy(descriptor.username) /\ Truthy(descriptor.password)
              THEN [username |-> descriptor.username, password |-> descriptor.password]
              ELSE NoAuth]

\* setCurrentUrl that builds the axios instance of the client again, with the
\* proxy of the new url
setCurrentUrlToRebuild(url) ==
    /\ currentUrl' = url
    /\ axiosInstance' = axiosCreate(getProxyServerResult(url))
    /\ UNCHANGED <<config, proxyServer, stickyVars, sessionId, currentId, currentSig,
                   inflight, out, last, drawn, runVars, schedVars, appVars>>

setCurrentUrlTo(url) ==
    /\ currentUrl' = url
    /\ UNCHANGED <<config, proxyServer, stickyVars, clientVars, runVars, schedVars, appVars>>

setCurrentUrl == \E url \in TargetUrls : setCurrentUrlTo(url)

getProxyServer == \E url \in TargetUrls \cup {NoUrl} :
    /\ proxyServer' = getProxyServerResult(url)
    /\ UNCHANGED <<config, currentUrl, stickyVars, clientVars, runVars, schedVars, appVars>>

\* The outcomes of Math.random().toString(36).substring(2, 15), two of them:
\* the digits after "0." of a draw above 0, and the empty string that is left
\* of "0" when the draw is 0
RandomSessionIds == {"k3x9w1", ""}

\* The sessionLifetime arguments: the default
SessionLifetimes == {10}

NoSticky ==
    [called |-> FALSE, target |-> NoUrl, server |-> "", username |-> Absent,
     password |-> Absent, current |-> FALSE]

\* ProxyManager.sessionId after "if (!this.sessionId)": generated when the
\* field is null or the empty string
stickySessionId(random) == IF ~Truthy(proxySessionId) THEN random ELSE proxySessionId

\* The template string of the sticky password, part by part
modifiedPassword(basePassword, id, sessionLifetime) ==
    <<basePassword, "_session-", id, "_lifetime-", sessionLifetime>>

\* current tells that no run has ended since the descriptor was handed out
getStickyProxyServerResult(sessionLifetime, url, random) ==
    LET targetUrl == OrUrl(url, currentUrl)
    IN IF config.username = "" \/ config.passwordDE = "" \/ config.passwordNonDE = ""
       THEN [called |-> TRUE, target |-> targetUrl, server |-> "http://host:port",
             username |-> Absent, password |-> Absent, current |-> TRUE]
       ELSE [called |-> TRUE, target |-> targetUrl, server |-> "http://host:port",
             username |-> config.username,
             password |-> modifiedPassword(selectPassword(targetUrl),
                                           stickySessionId(random), sessionLifetime),
             current |-> TRUE]

getStickyProxyServer ==
    \E url \in TargetUrls \cup {NoUrl}, sessionLifetime \in SessionLifetimes,
       random \in RandomSessionIds :
        /\ sticky' = getStickyProxyServerResult(sessionLifetime, url, random)
        /\ proxySessionId' =
              IF config.username = "" \/ config.passwordDE = "" \/ config.passwordNonDE = ""
              THEN proxySessionId
              ELSE stickySessionId(random)
        /\ UNCHANGED <<proxyVars, agent, clientVars, runVars, schedVars, appVars>>

clearSession ==
    /\ proxySessionId' = Null
    /\ UNCHANGED <<proxyVars, sticky, agent, clientVars, runVars, schedVars, appVars>>

NoAgent == [called |-> FALSE, target |-> NoUrl, threw |-> Absent, password |-> Absent]

\* createProxyAgent: the error it throws, or the password of the proxy URL
\* the agent is built with
createProxyAgentResult(url) ==
    LET targetUrl == OrUrl(url, currentUrl)
        proxyPassword == selectPassword(targetUrl)
    IN IF config.username = ""
       THEN [called |-> TRUE, target |-> targetUrl,
             threw |-> "Proxy username not configured", password |-> Absent]
       ELSE IF config.passwordDE = "" /\ config.passwordNonDE = ""
       THEN [called |-> TRUE, target |-> targetUrl,
             threw |-> "Proxy passwords not configured", password |-> Absent]
       ELSE IF proxyPassword = ""
       THEN [called |-> TRUE, target |-> targetUrl,
             threw |-> "Selected proxy password is empty", password |-> Absent]
       ELSE [called |-> TRUE, target |-> targetUrl, threw |-> Absent,
             password |-> proxyPassword]

createProxyAgent == \E url \in TargetUrls \cup {NoUrl} :
    /\ agent' = createProxyAgentResult(url)
    /\ UNCHANGED <<proxyVars, proxySessionId, sticky, clientVars, runVars, schedVars, appVars>>

\* testTargetUrl(targetUrl), for a configured target: setCurrentUrl, then
\* createProxyAgent, which may throw into the catch block of the method; the
\* request that follows changes nothing of the proxy manager
testTargetUrl == \E targetUrl \in {UrlOpelDe, UrlOpelFr} :
    /\ currentUrl' = targetUrl
    /\ agent' = createProxyAgentResult(targetUrl)
    /\ UNCHANGED <<config, proxyServer, proxySessionId, sticky, clientVars, runVars,
                   schedVars, appVars>>


\* The proxy manager after its constructor, with the credentials configured
ProxyInit ==
    /\ config = FullConfig
    /\ currentUrl = NoUrl
    /\ proxyServer = NoProxyServer

\* ... and with any configuration
ProxyInitAny ==
    /\ config \in Configs
    /\ currentUrl = NoUrl
    /\ proxyServer = NoProxyServer

StickyInit ==
    /\ proxySessionId = Null
    /\ sticky = NoSticky
    /\ agent = NoAgent

\* The constructor of the client asks getProxyServer() for its proxy, with no
\* url, and builds the axios instance once
TransportInit == axiosInstance = axiosCreate(getProxyServerResult(NoUrl))

\* ------------------------------------------- Scheduler.executeTask, SurveyRunner

\* The configured targets
getUrlsConfig == {UrlOpelDe, UrlOpelFr}

NoClicks == <<FALSE, FALSE, FALSE, FALSE>>

\* executeTask calls initialize() and runSurvey(url) once each and has no
\* loop: launches counts the chromium.launch calls of one executeTask call,
\* steps lists the steps of the visit that were made, error is the kind of
\* the exception runSurvey caught, settled is what became of the promise
\* executeTask returned, recorded counts the entries the report generator
\* took from this call.
NoRun ==
    [phase |-> "idle", url |-> NoUrl, proxy |-> NoProxyServer, clicked |-> NoClicks,
     steps |-> <<>>, launches |-> 0, error |-> "none", settled |-> "none",
     recorded |-> 0]

\* A step of a run is a step of a process that has not exited; what it
\* leaves alone
runFrame ==
    /\ ~exited
    /\ UNCHANGED <<clientVars, proxyVars, schedVars, appVars>>

\* The run goes on: the proxy manager keeps its sticky session
runGoesOn == UNCHANGED stickyVars

\* executeTask returns or rejects: the run is over.  Nothing in it touches
\* ProxyManager.sessionId; the sticky descriptor handed out before is now one
\* of a run that has ended.
runEnds ==
    /\ sticky' = Stale(sticky)
    /\ UNCHANGED <<proxySessionId, agent>>

\* executeTask(url), up to its first await: a new SurveyRunner
executeTask == \E url \in getUrlsConfig :
    /\ run.phase \in {"idle", "done"}
    /\ run' = [NoRun EXCEPT !.phase = "initialize", !.url = url, !.settled = "pending"]
    /\ browser' = "none"
    /\ page' = "none"
    /\ result' = "none"
    /\ report' = "none"
    /\ runGoesOn
    /\ runFrame

\* SurveyRunner.initialize: the proxy of getProxyServer(), called with no
\* url, and the launch of the browser, which may fail
initialize == \E launched \in BOOLEAN :
    /\ run.phase = "initialize"
    /\ run' = [run EXCEPT !.proxy = getProxyServerResult(NoUrl),
                          !.launches = @ + 1,
                          !.error = IF launched THEN @ ELSE "other",
                          !.phase = IF launched THEN "newPage" ELSE "catch"]
    /\ browser' = IF launched THEN "open" ELSE browser
    /\ UNCHANGED <<page, result, report>>
    /\ runGoesOn
    /\ runFrame

\* The catch block of runSurvey: the status, and page.close() on the pages
\* of the browser, whose failure is ignored.  made is the step that threw,
\* kind the kind of the exception.
runSurveyCatch(closed, made, kind) ==
    /\ result' = "failed"
    /\ page' = IF page = "open" /\ closed THEN "closed" ELSE page
    /\ run' = [run EXCEPT !.phase = "addSurveyResult", !.error = kind,
                          !.steps = @ \o made]

newPageThenGoto == \E opened \in BOOLEAN :
    /\ run.phase = "newPage"
    /\ IF opened
       THEN /\ page' = "open"
            /\ result' = "failed"
            /\ run' = [run EXCEPT !.phase = "goto"]
       ELSE runSurveyCatch(TRUE, <<>>, "other")
    /\ UNCHANGED <<browser, report>>
    /\ runGoesOn
    /\ runFrame

\* runSurvey up to browser.newPage
newPage == \E opened \in BOOLEAN :
    /\ run.phase = "newPage"
    /\ IF opened
       THEN /\ page' = "open"
            /\ result' = "failed"
            /\ run' = [run EXCEPT !.phase = "clearUsabillaCookies"]
       ELSE runSurveyCatch(TRUE, <<>>, "other")
    /\ UNCHANGED <<browser, report>>
    /\ runGoesOn
    /\ runFrame

\* runSurvey: clearUsabillaCookies(page), the cookies and the localStorage
\* keys of the widget
clearUsabillaCookies == \E cleared \in BOOLEAN, closed \in BOOLEAN :
    /\ run.phase = "clearUsabillaCookies"
    /\ IF cleared
       THEN /\ run' = [run EXCEPT !.phase = "goto", !.steps = @ \o <<"clear">>]
            /\ UNCHANGED <<page, result>>
       ELSE runSurveyCatch(closed, <<"clear">>, "other")
    /\ UNCHANGED <<browser, report>>
    /\ runGoesOn
    /\ runFrame

\* runSurvey: page.goto(url).  This is the first request that goes through
\* the proxy: it fails when the proxy connection fails.
goto == \E outcome \in {"loaded", "proxy", "other"}, closed \in BOOLEAN :
    /\ run.phase = "goto"
    /\ IF outcome = "loaded"
       THEN /\ run' = [run EXCEPT !.phase = "waitForLoadState",
                                  !.steps = @ \o <<"navigate">>]
            /\ UNCHANGED <<page, result>>
       ELSE runSurveyCatch(closed, <<"navigate">>, outcome)
    /\ UNCHANGED <<browser, report>>
    /\ runGoesOn
    /\ runFrame

\* runSurvey: page.waitForLoadState('networkidle')
waitForLoadState == \E idle \in BOOLEAN, closed \in BOOLEAN :
    /\ run.phase = "waitForLoadState"
    /\ IF idle
       THEN /\ run' = [run EXCEPT !.phase = "triggerSurvey", !.steps = @ \o <<"wait">>]
            /\ UNCHANGED <<page, result>>
       ELSE runSurveyCatch(closed, <<"wait">>, "other")
    /\ UNCHANGED <<browser, report>>
    /\ runGoesOn
    /\ runFrame

\* runSurvey: triggerSurvey(page) and the test of surveyTriggered
triggerSurvey == \E outcome \in {"triggered", "not triggered", "throws"}, closed \in BOOLEAN :
    /\ run.phase = "triggerSurvey"
    /\ IF outcome = "triggered"
       THEN /\ run' = [run EXCEPT !.phase = "fillPage1", !.steps = @ \o <<"trigger">>]
            /\ UNCHANGED <<page, result>>
       ELSE runSurveyCatch(closed, <<"trigger">>, "other")
    /\ UNCHANGED <<browser, report>>
    /\ runGoesOn
    /\ runFrame

\* fillPageN: every page.click has .catch(() => {}), so the click on the
\* next or submit button lands or is dropped, and the method returns
fillPage(n, landed) ==
    /\ run.phase = <<"fillPage1", "fillPage2", "fillPage3", "fillPage4">>[n]
    /\ run' = [run EXCEPT !.clicked[n] = landed,
                          !.steps = @ \o <<<<"page1", "page2", "page3", "page4">>[n]>>,
                          !.phase = <<"fillPage2", "fillPage3", "fillPage4", "closePage">>[n]]

fillPage1 == \E landed \in BOOLEAN :
    /\ fillPage(1, landed)
    /\ UNCHANGED <<browser, page, result, report>>
    /\ runGoesOn
    /\ runFrame

fillPage2 == \E landed \in BOOLEAN :
    /\ fillPage(2, landed)
    /\ UNCHANGED <<browser, page, result, report>>
    /\ runGoesOn
    /\ runFrame

fillPage3 == \E landed \in BOOLEAN :
    /\ fillPage(3, landed)
    /\ UNCHANGED <<browser, page, result, report>>
    /\ runGoesOn
    /\ runFrame

\* the status fillSurvey's caller sets when fillSurvey has returned
fillSurveyStatus(clicked) == "success"

\* fillPage4, the last step of fillSurvey, and the status set after it
fillPage4 == \E landed \in BOOLEAN :
    /\ fillPage(4, landed)
    /\ result' = fillSurveyStatus(run'.clicked)
    /\ UNCHANGED <<browser, page, report>>
    /\ runGoesOn
    /\ runFrame

\* runSurvey: page.close() at the end of the try block
closePage == \E closed \in BOOLEAN, closedAgain \in BOOLEAN :
    /\ run.phase = "closePage"
    /\ IF closed
       THEN /\ page' = "closed"
            /\ run' = [run EXCEPT !.phase = "addSurveyResult"]
            /\ UNCHANGED result
       ELSE runSurveyCatch(closedAgain, <<>>, "other")
    /\ UNCHANGED <<browser, report>>
    /\ runGoesOn
    /\ runFrame

\* executeTask: the entry of the result goes to the report generator
addSurveyResult == \E returns \in BOOLEAN :
    /\ run.phase = "addSurveyResult"
    /\ report' = IF returns THEN result ELSE "threw"
    /\ run' = [run EXCEPT !.phase = IF returns THEN "cleanup" ELSE "catch",
                          !.recorded = IF returns THEN @ + 1 ELSE @]
    /\ UNCHANGED <<browser, page, result>>
    /\ runGoesOn
    /\ runFrame

cleanupOutsideTry == \E closed \in BOOLEAN :
    /\ run.phase = "cleanup"
    /\ browser' = IF closed THEN "closed" ELSE browser
    /\ page' = IF closed /\ page = "open" THEN "closed" ELSE page
    /\ run' = [run EXCEPT !.phase = "done",
                          !.settled = IF closed THEN "resolved" ELSE "rejected"]
    /\ runEnds
    /\ UNCHANGED <<result, report>>
    /\ runFrame

\* executeTask: runner.cleanup(), the last statement of the try block.
\* Closing the browser closes its pages.
cleanup == \E closed \in BOOLEAN :
    /\ run.phase = "cleanup"
    /\ IF closed
       THEN /\ browser' = "closed"
            /\ page' = IF page = "open" THEN "closed" ELSE page
            /\ run' = [run EXCEPT !.phase = "done", !.settled = "resolved"]
            /\ runEnds
       ELSE /\ run' = [run EXCEPT !.phase = "catch"]
            /\ UNCHANGED <<browser, page>>
            /\ runGoesOn
    /\ UNCHANGED <<result, report>>
    /\ runFrame

\* executeTask: the catch block, which records a failure
catchFailure == \E returns \in BOOLEAN :
    /\ run.phase = "catch"
    /\ report' = IF returns THEN "failed" ELSE "threw"
    /\ run' = [run EXCEPT !.phase = "done",
                          !.recorded = IF returns THEN @ + 1 ELSE @,
                          !.settled = IF returns THEN "resolved" ELSE "rejected"]
    /\ UNCHANGED <<browser, page, result>>
    /\ runEnds
    /\ runFrame

RunInit ==
    /\ run = NoRun
    /\ browser = "none"
    /\ page = "none"
    /\ result = "none"
    /\ report = "none"

\* ------------------------------------------------------------ Scheduler timers

\* The clock counts whole hours; a cron entry "minute hour * * *" fires once
\* in the 24 hours of a day
HoursPerDay == 24

\* Rate limiting as src/prompt.md words it: one submission per URL in 2 hours,
\* 30 submissions a day, 24 hours without submissions after a block
MinSpacingHours == 2
DailyCap == 30
SuspensionHours == 24

\* Bound of the exploration: the scheduleUrlAtInterval calls made
MaxIntervalTasks == 2

\* RUNS_PER_DAY: the default 3, fewer, and the 5 of the README
RunsPerDay == {1, 2, 3, 5}

\* intervalMinutes: one hour, one step of the clock
IntervalMinutes == {60}

Never == -1

Min(a, b) == IF a < b THEN a ELSE b

\* Math.random() in hundredths: its least value and one next to its bound
MathRandom == {0, 99}

randomIntAtRound(min, max, random) ==
    (random * (max - min + 1) + 50) \div 100 + min

\* randomInt(min, max) when Math.random() returns random / 100:
\* Math.floor(Math.random() * (max - min + 1)) + min
randomIntAt(min, max, random) ==
    (random * (max - min + 1)) \div 100 + min

\* The values of randomInt(min, max) taken here: the two ends of min..max
randomInt(min, max) == {randomIntAt(min, max, random) : random \in MathRandom}

\* The windows of generateDailySchedule, after windows.slice(0, runsPerDay)
Windows(runsPerDay) ==
    LET windows ==
            IF runsPerDay >= 3
            THEN <<[start |-> 8, end |-> 11], [start |-> 12, end |-> 15],
                   [start |-> 17, end |-> 21]>>
            ELSE IF runsPerDay = 2
            THEN <<[start |-> 9, end |-> 14], [start |-> 15, end |-> 20]>>
            ELSE <<[start |-> 8, end |-> 20]>>
    IN SubSeq(windows, 1, Min(runsPerDay, Len(windows)))

\* The schedules generateDailySchedule can return: for every url one entry in
\* every window, at a random hour of the window.  The minute is random too;
\* on a clock of whole hours an entry is due in its hour, and the entries
\* here are on the hour.
generateDailySchedule(urls, runsPerDay) ==
    LET windows == Windows(runsPerDay)
        hours == {h \in [1..Len(windows) -> 0..(HoursPerDay - 1)] :
                    \A i \in 1..Len(windows) :
                        h[i] \in randomInt(windows[i].start, windows[i].end)}
    IN {{[url |-> u, hour |-> f[u][i], minute |-> 0] :
            u \in urls, i \in 1..Len(windows)} : f \in [urls -> hours]}

\* generateDailySchedule for one url, in the order of its windows: entry i
\* is at randomInt(start, end) hours and randomInt(0, 59) minutes, drawn
\* with Math.random() = hourDraws[i] / 100 and minuteDraws[i] / 100
scheduleEntries(url, runsPerDay, hourDraws, minuteDraws) ==
    LET windows == Windows(runsPerDay)
    IN [i \in 1..Len(windows) |->
           [url |-> url,
            hour |-> randomIntAt(windows[i].start, windows[i].end, hourDraws[i]),
            minute |-> randomIntAt(0, 59, minuteDraws[i])]]

NoGenerated ==
    [called |-> FALSE, runsPerDay |-> 0, entries |-> [u \in getUrlsConfig |-> <<>>]]

\* A call generateDailySchedule(urls, runsPerDay) with the configured urls
\* and the runsPerDay at hand, and what it returns
generateDailyScheduleCall ==
    LET n == Len(Windows(generated.runsPerDay))
    IN \E hourDraws \in [getUrlsConfig -> [1..n -> MathRandom]],
          minuteDraws \in [getUrlsConfig -> [1..n -> MathRandom]] :
        /\ ~generated.called
        /\ generated' =
               [generated EXCEPT
                   !.called = TRUE,
                   !.entries = [u \in getUrlsConfig |->
                                   scheduleEntries(u, generated.runsPerDay,
                                                   hourDraws[u], minuteDraws[u])]]
        /\ UNCHANGED <<exited, weights, sample, results, alert, delivery, visit>>
        /\ UNCHANGED <<clientVars, managerVars, runVars, schedVars>>

NoPending == [cron |-> EmptyBag, interval |-> {}]

\* `${url}-${hour}:${minute}`
scheduleTaskId(url, hour, minute) == <<url, "-", hour, ":", minute>>

DailyReportTaskId == <<"daily-report">>

\* The task cron.schedule returns for `${minute} ${hour} * * *`, with the
\* key it is stored under; url is the argument of its executeTask call
cronTaskOf(url, hour, minute) ==
    [taskId |-> scheduleTaskId(url, hour, minute), url |-> url, hour |-> hour,
     minute |-> minute]

\* The hours scheduleUrl is called with one call at a time, and the times
\* of scheduleDailyReport, parsed: the default and another
CronHours == {9, 15}
ReportTimes == {[hour |-> 22, minute |-> 0], [hour |-> 9, minute |-> 0]}

\* `${url}-interval-${intervalMinutes}m-${Date.now()}`
intervalTaskId(url, intervalMinutes, at) == <<url, "-interval-", intervalMinutes, "m-", at>>

\* The values Date.now() can return in a scheduleUrlAtInterval call: a later
\* millisecond than in the call before, or the same one when no hour has
\* passed since.  Milliseconds are numbered in the order of their use.
DateNow ==
    IF dateNow.calls > 0 /\ ~dateNow.elapsed
    THEN {dateNow.at, dateNow.at + 1}
    ELSE {dateNow.at + 1}

\* Bound of the exploration: the count of the runs of a url in progress
\* stops here
MaxRunning == 2

\* A timer fires in a process that has not exited; what a step of the
\* scheduler leaves alone
schedFrame ==
    /\ ~exited
    /\ UNCHANGED <<clientVars, managerVars, runVars, appVars>>

\* The callback of a timer calls executeTask(url) and does not wait for it:
\* a run for url starts now.  The count of the day stops one above the cap.
executeTaskStarted(url) ==
    /\ attemptsToday' = Min(attemptsToday + 1, DailyCap + 1)
    /\ sinceStart' = [sinceStart EXCEPT ![url] = 0]
    /\ running' = [running EXCEPT ![url] = Min(@ + 1, MaxRunning)]

\* An executeTask call ends: its promise settles.  Nothing in the scheduler
\* waits for it.
executeTaskEnds == \E url \in getUrlsConfig :
    /\ running[url] > 0
    /\ running' = [running EXCEPT ![url] = @ - 1]
    /\ UNCHANGED <<now, tasks, cronJobs, cronCalls, intervalTasks, pending, attemptsToday,
                   sinceStart, blockedUrl, sinceBlock, timers, dateNow>>
    /\ schedFrame

\* Bound of the exploration: the count of the cron.schedule calls stops here
MaxCronCalls == 2

\* scheduleUrl and scheduleDailyReport storing a task that keeps the task
\* the map held under the taskId running
cronScheduleNoStop(task) ==
    LET existingTask == {e \in tasks : e.taskId = task.taskId}
    IN /\ cronJobs' = cronJobs (+) SetToBag({task})
       /\ pending' = pending
       /\ tasks' = (tasks \ existingTask) \cup {task}
       /\ cronCalls' = Min(cronCalls + 1, MaxCronCalls)

\* What scheduleUrl and scheduleDailyReport share: existingTask.stop() on the
\* task the map holds under the taskId, which then does not call back any
\* more; cron.schedule, whose task is due from its next match on; tasks.set
cronSchedule(task) ==
    LET existingTask == {e \in tasks : e.taskId = task.taskId}
    IN /\ cronJobs' = (cronJobs (-) SetToBag(existingTask)) (+) SetToBag({task})
       /\ pending' = [pending EXCEPT !.cron = @ (-) SetToBag(existingTask)]
       /\ tasks' = (tasks \ existingTask) \cup {task}
       /\ cronCalls' = Min(cronCalls + 1, MaxCronCalls)

\* scheduleUrl(url, hour, minute), whoever calls it
scheduleUrl == \E url \in getUrlsConfig, hour \in CronHours :
    /\ cronSchedule(cronTaskOf(url, hour, 0))
    /\ UNCHANGED <<now, running, intervalTasks, attemptsToday, sinceStart, blockedUrl,
                   sinceBlock, timers, dateNow>>
    /\ schedFrame

\* scheduleDailyReport(time, callback)
scheduleDailyReport == \E time \in ReportTimes :
    /\ cronSchedule([taskId |-> DailyReportTaskId, url |-> NoUrl,
                     hour |-> time.hour, minute |-> time.minute])
    /\ UNCHANGED <<now, running, intervalTasks, attemptsToday, sinceStart, blockedUrl,
                   sinceBlock, timers, dateNow>>
    /\ schedFrame

\* scheduleAllTasks at startup: scheduleUrl for every entry of the schedule,
\* which has no two entries alike
scheduleAllTasks ==
    \E runsPerDay \in RunsPerDay :
    \E schedule \in generateDailySchedule(getUrlsConfig, runsPerDay) :
        LET scheduled == {cronTaskOf(entry.url, entry.hour, entry.minute) :
                            entry \in schedule}
        IN /\ tasks = {}
           /\ tasks' = scheduled
           /\ cronJobs' = cronJobs (+) SetToBag(scheduled)
           /\ cronCalls' = Min(cronCalls + Cardinality(scheduled), MaxCronCalls)
           /\ UNCHANGED <<now, running, intervalTasks, pending, attemptsToday, sinceStart,
                          blockedUrl, sinceBlock, timers, dateNow>>
           /\ schedFrame

\* scheduleUrlAtInterval: executeTask at once, then a timer, which
\* intervalTasks.set(taskId, intervalTask) stores in place of the timer the
\* map held under taskId.  The timer of a call is numbered by the call.
scheduleUrlAtInterval ==
    \E url \in getUrlsConfig, intervalMinutes \in IntervalMinutes, at \in DateNow :
        LET taskId == intervalTaskId(url, intervalMinutes, at)
            intervalTask == dateNow.calls + 1
        IN /\ dateNow.calls < MaxIntervalTasks
           /\ executeTaskStarted(url)
           /\ timers' = timers \cup {[handle |-> intervalTask, taskId |-> taskId]}
           /\ intervalTasks' =
                  {e \in intervalTasks : e.taskId # taskId}
                  \cup {[taskId |-> taskId, handle |-> intervalTask]}
           /\ dateNow' = [calls |-> dateNow.calls + 1, at |-> at, elapsed |-> FALSE]
           /\ UNCHANGED <<now, tasks, cronJobs, cronCalls, pending, blockedUrl, sinceBlock>>
           /\ schedFrame

\* stopIntervalTask(taskId) for a taskId of the map: clearInterval on the
\* timer stored under it, which then does not call back any more
stopIntervalTask == \E e \in intervalTasks :
    /\ timers' = {t \in timers : t.handle # e.handle}
    /\ intervalTasks' = intervalTasks \ {e}
    /\ pending' = [pending EXCEPT !.interval = @ \ {e.handle}]
    /\ UNCHANGED <<now, tasks, cronJobs, cronCalls, running, attemptsToday, sinceStart, blockedUrl,
                   sinceBlock, dateNow>>
    /\ schedFrame

\* What stopAll() does to the timers: task.stop() on every cron task,
\* clearInterval on every timer stored in intervalTasks, both maps emptied
stopAllTimers ==
    LET stored == {e.handle : e \in intervalTasks}
    IN /\ tasks' = {}
       /\ cronJobs' = cronJobs (-) SetToBag(tasks)
       /\ cronCalls' = cronCalls
       /\ timers' = {t \in timers : t.handle \notin stored}
       /\ intervalTasks' = {}
       /\ pending' = [cron |-> pending.cron (-) SetToBag(tasks),
                      interval |-> pending.interval \ stored]

stopAll ==
    /\ stopAllTimers
    /\ UNCHANGED <<now, running, attemptsToday, sinceStart, blockedUrl, sinceBlock, dateNow>>
    /\ schedFrame

\* handleShutdown, on SIGINT or SIGTERM: stopAll(), then process.exit(0),
\* which ends every timer and every run in flight where it stands
handleShutdown ==
    /\ ~exited
    /\ exited' = TRUE
    /\ tasks' = {}
    /\ cronJobs' = EmptyBag
    /\ cronCalls' = cronCalls
    /\ intervalTasks' = {}
    /\ timers' = {}
    /\ pending' = NoPending
    /\ UNCHANGED <<now, running, attemptsToday, sinceStart, blockedUrl, sinceBlock, dateNow>>
    /\ UNCHANGED <<generated, weights, sample, results, alert, delivery, visit>>
    /\ UNCHANGED <<clientVars, managerVars, runVars>>

\* The callback of cron.schedule in scheduleUrl
cronTask == \E entry \in BagToSet(pending.cron) :
    /\ entry.taskId # DailyReportTaskId
    /\ executeTaskStarted(entry.url)
    /\ pending' = [pending EXCEPT !.cron = @ (-) SetToBag({entry})]
    /\ UNCHANGED <<now, tasks, cronJobs, cronCalls, intervalTasks, blockedUrl, sinceBlock, timers,
                   dateNow>>
    /\ schedFrame

\* The callback of cron.schedule in scheduleDailyReport: it calls callback(),
\* the function of the caller, and does not wait for it
dailyReportCron == \E entry \in BagToSet(pending.cron) :
    /\ entry.taskId = DailyReportTaskId
    /\ pending' = [pending EXCEPT !.cron = @ (-) SetToBag({entry})]
    /\ UNCHANGED <<now, tasks, cronJobs, cronCalls, running, intervalTasks, attemptsToday, sinceStart,
                   blockedUrl, sinceBlock, timers, dateNow>>
    /\ schedFrame

\* The callback of setInterval in scheduleUrlAtInterval
intervalTask == \E t \in timers :
    /\ t.handle \in pending.interval
    /\ executeTaskStarted(t.taskId[1])
    /\ pending' = [pending EXCEPT !.interval = @ \ {t.handle}]
    /\ UNCHANGED <<now, tasks, cronJobs, cronCalls, intervalTasks, blockedUrl, sinceBlock, timers,
                   dateNow>>
    /\ schedFrame

\* An hour passes, once the timers due in it have fired: the cron entries of
\* the new hour and every interval become due
tick ==
    /\ pending = NoPending
    /\ now' = (now + 1) % HoursPerDay
    /\ pending' = [cron |-> [entry \in {e \in BagToSet(cronJobs) : e.hour = now'} |->
                                CopiesIn(entry, cronJobs)],
                   interval |-> {t.handle : t \in timers}]
    /\ dateNow' = [dateNow EXCEPT !.elapsed = TRUE]
    /\ attemptsToday' = IF now' = 0 THEN 0 ELSE attemptsToday
    /\ sinceStart' = [u \in getUrlsConfig |->
                         IF sinceStart[u] = Never THEN Never
                         ELSE Min(sinceStart[u] + 1, MinSpacingHours)]
    /\ sinceBlock' = IF blockedUrl = NoUrl THEN sinceBlock
                     ELSE Min(sinceBlock + 1, SuspensionHours)
    /\ UNCHANGED <<tasks, cronJobs, cronCalls, running, intervalTasks, blockedUrl, timers>>
    /\ schedFrame

\* The site answers the run that started in this hour with a CAPTCHA or a
\* block page.  runSurvey has no test for it.
blockSignal == \E url \in getUrlsConfig :
    /\ sinceStart[url] = 0
    /\ blockedUrl' = url
    /\ sinceBlock' = 0
    /\ UNCHANGED <<now, tasks, cronJobs, cronCalls, running, intervalTasks, pending, attemptsToday,
                   sinceStart, timers, dateNow>>
    /\ schedFrame

SchedInit ==
    /\ now = 0
    /\ tasks = {}
    /\ cronJobs = EmptyBag
    /\ cronCalls = 0
    /\ running = [u \in getUrlsConfig |-> 0]
    /\ intervalTasks = {}
    /\ timers = {}
    /\ dateNow = [calls |-> 0, at |-> 0, elapsed |-> TRUE]
    /\ pending = NoPending
    /\ attemptsToday = 0
    /\ sinceStart = [u \in getUrlsConfig |-> Never]
    /\ blockedUrl = NoUrl
    /\ sinceBlock = 0

ProcessInit == exited = FALSE

GeneratedInit == generated = NoGenerated

\* -------------------------------------------- ReportGenerator, monitorFailures

\* Bound of the exploration: the entries the report generator holds
MaxResults == 12

NoResults == [total |-> 0, successful |-> 0]
NoAlert == [ticked |-> FALSE, sent |-> FALSE, failed |-> 0, totalAttempted |-> 0]

\* What a step of the report generator or of the monitor leaves alone
monitorFrame ==
    /\ ~exited
    /\ UNCHANGED <<exited, generated, weights, sample, delivery, visit>>
    /\ UNCHANGED <<clientVars, managerVars, runVars, schedVars>>

\* ReportGenerator.addResult: results.push(result)
addResult == \E status \in {"success", "failed"} :
    /\ results.total < MaxResults
    /\ results' = [total |-> results.total + 1,
                   successful |-> results.successful + (IF status = "success" THEN 1 ELSE 0)]
    /\ UNCHANGED alert
    /\ monitorFrame

\* ReportGenerator.clear, which the daily report calls when its mail was sent
clear ==
    /\ results' = NoResults
    /\ UNCHANGED alert
    /\ monitorFrame

\* The counts of generateDailyReport()
generateDailyReport ==
    [totalAttempted |-> results.total,
     successful |-> results.successful,
     failed |-> results.total - results.successful]

highFailureRateFromHalf(daily) ==
    daily.failed * 100 >= 50 * daily.totalAttempted

\* failureRate > 50, where failureRate = (failed / totalAttempted) * 100 and
\* totalAttempted > 0
highFailureRate(daily) ==
    daily.failed * 100 > 50 * daily.totalAttempted

\* The callback of the timer of monitorFailures: sendAlertEmail is called or
\* it is not, and the mail names failed and totalAttempted
monitorFailures ==
    LET daily == generateDailyReport
    IN /\ alert' = [ticked |-> TRUE,
                    sent |-> /\ daily.failed > 0 /\ daily.totalAttempted > 0
                             /\ highFailureRate(daily),
                    failed |-> daily.failed,
                    totalAttempted |-> daily.totalAttempted]
       /\ UNCHANGED results
       /\ monitorFrame

NoDelivery == [sending |-> FALSE, reported |-> 0, discarded |-> 0]

\* What a step of the daily report leaves alone
reportFrame ==
    /\ ~exited
    /\ UNCHANGED <<exited, generated, weights, sample, alert, visit>>
    /\ UNCHANGED <<clientVars, managerVars, runVars, schedVars>>

\* The callback of setupDailyReporting, up to its await: the report and its
\* HTML are made of the results there are, and the mail goes out
dailyReportTask ==
    /\ ~delivery.sending
    /\ delivery' = [delivery EXCEPT !.sending = TRUE,
                                    !.reported = generateDailyReport.totalAttempted]
    /\ UNCHANGED results
    /\ reportFrame

\* ... and after the await: clear() when the mail was sent, and the results
\* stay when it was not
sendDailyReport == \E sent \in BOOLEAN :
    /\ delivery.sending
    /\ IF sent
       THEN /\ results' = NoResults
            /\ delivery' = [delivery EXCEPT !.sending = FALSE,
                                            !.discarded = results.total - delivery.reported]
       ELSE /\ UNCHANGED results
            /\ delivery' = [delivery EXCEPT !.sending = FALSE]
    /\ reportFrame

MonitorInit ==
    /\ results = NoResults
    /\ alert = NoAlert
    /\ delivery = NoDelivery

\* ------------------------------------------------------------ weightedRandom

\* The values of a choice and the weights they can have; the weights need
\* not add up to one
Values == <<"v1", "v2", "v3">>
Weights == {w \in [1..Len(Values) -> {0, 1, 3}] : \E i \in 1..Len(Values) : w[i] > 0}

\* The draws of Math.random(), in hundredths
Hundredths == 0..99

RECURSIVE reduceSum(_, _)
\* weights.reduce((sum, w) => sum + w, 0), over the first n weights
reduceSum(ws, n) == IF n = 0 THEN 0 ELSE reduceSum(ws, n - 1) + ws[n]

RECURSIVE weightedRandomFrom(_, _, _, _)
\* The loop of weightedRandom from index i on, random being 100 times the
\* variable of the code
weightedRandomFrom(values, ws, i, random) ==
    IF i > Len(values) THEN values[Len(values)]
    ELSE IF random - 100 * ws[i] <= 0 THEN values[i]
    ELSE weightedRandomFrom(values, ws, i + 1, random - 100 * ws[i])

weightedRandomOfOne(values, ws, random) ==
    weightedRandomFrom(values, ws, 1, random)

\* weightedRandom(values, weights) when Math.random() returns random / 100
weightedRandom(values, ws, random) ==
    weightedRandomFrom(values, ws, 1, random * reduceSum(ws, Len(ws)))

NoSample == [called |-> FALSE, random |-> 0, value |-> ""]

\* A call weightedRandom(Values, weights)
weightedRandomCall == \E random \in Hundredths :
    /\ ~exited
    /\ sample' = [called |-> TRUE, random |-> random,
                  value |-> weightedRandom(Values, weights, random)]
    /\ UNCHANGED <<exited, generated, weights, results, alert, delivery, visit>>
    /\ UNCHANGED <<clientVars, managerVars, runVars, schedVars>>

SampleInit ==
    /\ weights = [i \in 1..Len(Values) |-> 1]
    /\ sample = NoSample

\* ------------------------------- SurveyRunner.runSurvey with a finally block

NoVisit ==
    [phase |-> "idle", url |-> NoUrl, context |-> "none", page |-> "none",
     status |-> "none", error |-> "none", settled |-> "none"]

\* What a step of runSurvey leaves alone
visitFrame ==
    /\ ~exited
    /\ UNCHANGED <<exited, generated, weights, sample, results, alert, delivery>>
    /\ UNCHANGED <<clientVars, managerVars, runVars, schedVars>>

\* A step of the try block threw: the catch block sets the status and the
\* message, and ignores a failure of its screenshot
visitCaught(message) ==
    visit' = [visit EXCEPT !.phase = "finally", !.status = "failed", !.error = message]

\* runSurvey(url), on a runner whose browser was launched or was not, up to
\* its first await
runSurvey == \E url \in getUrlsConfig, initialized \in BOOLEAN :
    /\ visit.settled # "pending"
    /\ visit' = IF initialized
                THEN [NoVisit EXCEPT !.phase = "newContext", !.url = url,
                                     !.status = "failed", !.settled = "pending"]
                ELSE [NoVisit EXCEPT !.phase = "finally", !.url = url,
                                     !.status = "failed", !.settled = "pending",
                                     !.error = "Browser not initialized"]
    /\ visitFrame

\* browser.newContext
newContext == \E created \in BOOLEAN :
    /\ visit.phase = "newContext"
    /\ IF created
       THEN visit' = [visit EXCEPT !.phase = "clearCookies", !.context = "open"]
       ELSE visitCaught("newContext")
    /\ visitFrame

\* context.clearCookies
clearCookies == \E cleared \in BOOLEAN :
    /\ visit.phase = "clearCookies"
    /\ IF cleared
       THEN visit' = [visit EXCEPT !.phase = "contextNewPage"]
       ELSE visitCaught("clearCookies")
    /\ visitFrame

\* context.newPage
contextNewPage == \E opened \in BOOLEAN :
    /\ visit.phase = "contextNewPage"
    /\ IF opened
       THEN visit' = [visit EXCEPT !.phase = "navigate", !.page = "open"]
       ELSE visitCaught("newPage")
    /\ visitFrame

\* page.goto, page.waitForLoadState, the delay and acceptCookiesIfPresent
navigate == \E loaded \in BOOLEAN :
    /\ visit.phase = "navigate"
    /\ IF loaded
       THEN visit' = [visit EXCEPT !.phase = "scrollAndWaitForUsabilla"]
       ELSE visitCaught("goto")
    /\ visitFrame

\* scrollAndWaitForUsabilla and the test of surveyTriggered
scrollAndWaitForUsabilla == \E surveyTriggered \in BOOLEAN :
    /\ visit.phase = "scrollAndWaitForUsabilla"
    /\ IF surveyTriggered
       THEN visit' = [visit EXCEPT !.phase = "fillSurvey"]
       ELSE visitCaught("Survey widget not found after scrolling")
    /\ visitFrame

\* fillSurvey, the status set after it, and the screenshot in its own try
fillSurvey == \E filled \in BOOLEAN :
    /\ visit.phase = "fillSurvey"
    /\ IF filled
       THEN visit' = [visit EXCEPT !.phase = "finally", !.status = "success"]
       ELSE visitCaught("fillSurvey")
    /\ visitFrame

\* The finally block: page.close() and context.close() when there is a page
\* and a context.  An exception of either leaves runSurvey; otherwise the
\* result is pushed and returned.
runSurveyFinally == \E pageClosed \in BOOLEAN, contextClosed \in BOOLEAN :
    /\ visit.phase = "finally"
    /\ LET closesPage == visit.page = "open" /\ pageClosed
           pageThrew == visit.page = "open" /\ ~pageClosed
           closesContext == ~pageThrew /\ visit.context = "open" /\ contextClosed
           contextThrew == ~pageThrew /\ visit.context = "open" /\ ~contextClosed
       IN visit' = [visit EXCEPT
                       !.phase = "settled",
                       !.page = IF closesPage THEN "closed" ELSE @,
                       !.context = IF closesContext THEN "closed" ELSE @,
                       !.settled = IF pageThrew \/ contextThrew
                                   THEN "rejected" ELSE "returned"]
    /\ visitFrame

VisitInit == visit = NoVisit

AppInit == ProcessInit /\ GeneratedInit /\ MonitorInit /\ SampleInit /\ VisitInit

\* ----------------------------------------------------------- specifications

Init ==
    /\ ClientInit /\ ProxyInit /\ StickyInit /\ TransportInit
    /\ RunInit /\ SchedInit /\ AppInit

Next ==
    \/ submitPage1
    \/ submitPage2
    \/ submitPage3
    \/ submitPage4
    \/ submit
    \/ resetSession

Spec == Init /\ [][Next]_vars

\* The proxy manager on its own, under any configuration
InitProxy ==
    /\ ClientInit /\ ProxyInitAny /\ StickyInit /\ TransportInit
    /\ RunInit /\ SchedInit /\ AppInit

NextProxy ==
    \/ setCurrentUrl
    \/ getProxyServer
    \/ getStickyProxyServer
    \/ clearSession
    \/ createProxyAgent

SpecProxy == InitProxy /\ [][NextProxy]_vars

\* One session of the client and the proxy manager it shares: setCurrentUrl
\* between the requests of the client
setCurrentUrlOtherMarket == setCurrentUrlTo(UrlOpelFr)

NextTransport ==
    \/ submitPage1
    \/ submitPage2
    \/ submitPage3
    \/ submitPage4
    \/ submit
    \/ setCurrentUrlOtherMarket

SpecTransport == Init /\ [][NextTransport]_vars

\* The runs of the scheduler, one after the other, and the sticky session of
\* the proxy manager they share
NextRun ==
    \/ executeTask
    \/ initialize
    \/ newPage
    \/ clearUsabillaCookies
    \/ goto
    \/ waitForLoadState
    \/ triggerSurvey
    \/ fillPage1
    \/ fillPage2
    \/ fillPage3
    \/ fillPage4
    \/ closePage
    \/ addSurveyResult
    \/ cleanup
    \/ catchFailure
    \/ getStickyProxyServer
    \/ clearSession

SpecRun == Init /\ [][NextRun]_vars

\* The timers of the daily schedule
NextSched ==
    \/ scheduleAllTasks
    \/ cronTask
    \/ tick
    \/ blockSignal

SpecSched == Init /\ [][NextSched]_vars

\* The timers of interval mode
NextInterval ==
    \/ scheduleUrlAtInterval
    \/ intervalTask
    \/ tick

SpecInterval == Init /\ [][NextInterval]_vars

\* Interval mode with its stop methods
NextStop ==
    \/ scheduleUrlAtInterval
    \/ intervalTask
    \/ tick
    \/ stopIntervalTask
    \/ stopAll

SpecStop == Init /\ [][NextStop]_vars

\* The runs of the scheduler, and the signal that ends the process
NextSurvey ==
    \/ executeTask
    \/ initialize
    \/ newPage
    \/ clearUsabillaCookies
    \/ goto
    \/ waitForLoadState
    \/ triggerSurvey
    \/ fillPage1
    \/ fillPage2
    \/ fillPage3
    \/ fillPage4
    \/ closePage
    \/ addSurveyResult
    \/ cleanup
    \/ catchFailure
    \/ handleShutdown

SpecSurvey == Init /\ [][NextSurvey]_vars

\* generateDailySchedule, for every RUNS_PER_DAY
InitSchedule ==
    /\ ClientInit /\ ProxyInit /\ StickyInit /\ TransportInit
    /\ RunInit /\ SchedInit
    /\ ProcessInit /\ MonitorInit /\ SampleInit /\ VisitInit
    /\ generated \in {[NoGenerated EXCEPT !.runsPerDay = r] : r \in RunsPerDay}

NextSchedule == generateDailyScheduleCall

SpecSchedule == InitSchedule /\ [][NextSchedule]_vars

\* The report generator and the failure monitor
NextMonitor ==
    \/ addResult
    \/ clear
    \/ monitorFailures

SpecMonitor == Init /\ [][NextMonitor]_vars

\* weightedRandom, for every choice of weights
InitSample ==
    /\ ClientInit /\ ProxyInit /\ StickyInit /\ TransportInit
    /\ RunInit /\ SchedInit
    /\ ProcessInit /\ GeneratedInit /\ MonitorInit /\ VisitInit
    /\ weights \in Weights
    /\ sample = NoSample

NextSample == weightedRandomCall

SpecSample == InitSample /\ [][NextSample]_vars

\* runSurvey of the runner with the finally block, whoever calls it
NextVisit ==
    \/ runSurvey
    \/ newContext
    \/ clearCookies
    \/ contextNewPage
    \/ navigate
    \/ scrollAndWaitForUsabilla
    \/ fillSurvey
    \/ runSurveyFinally

SpecVisit == Init /\ [][NextVisit]_vars

\* The timers of interval mode, and the ends of the runs they start
NextOverlap ==
    \/ scheduleUrlAtInterval
    \/ intervalTask
    \/ tick
    \/ executeTaskEnds

SpecOverlap == Init /\ [][NextOverlap]_vars

\* The cron tasks, scheduled one call at a time
NextCron ==
    \/ scheduleUrl
    \/ scheduleDailyReport
    \/ cronTask
    \/ dailyReportCron
    \/ tick

SpecCron == Init /\ [][NextCron]_vars

\* Every way of scheduling, and stopAll
NextStopAll ==
    \/ scheduleUrl
    \/ scheduleDailyReport
    \/ scheduleUrlAtInterval
    \/ stopAll

SpecStopAll == Init /\ [][NextStopAll]_vars

\* The report generator and the daily report
NextReport ==
    \/ addResult
    \/ dailyReportTask
    \/ sendDailyReport

SpecReport == Init /\ [][NextReport]_vars

\* A run of the scheduler, and the calls another run makes on the proxy
\* manager they share
setCurrentUrlOfRun == \E url \in getUrlsConfig : setCurrentUrlTo(url)

NextShared ==
    \/ executeTask
    \/ initialize
    \/ newPage
    \/ clearUsabillaCookies
    \/ goto
    \/ waitForLoadState
    \/ triggerSurvey
    \/ fillPage1
    \/ fillPage2
    \/ fillPage3
    \/ fillPage4
    \/ closePage
    \/ addSurveyResult
    \/ cleanup
    \/ catchFailure
    \/ setCurrentUrlOfRun
    \/ testTargetUrl

SpecShared == Init /\ [][NextShared]_vars

\* ------------------------------------------------------------- properties

\* A step that posts a payload
Issued == BagCardinality(inflight') = BagCardinality(inflight) + 1

\* out is outstanding and was posted while nothing else was: the exchange
\* before it had settled when it was issued
IssuedAfterSettlement ==
    out.posted /\ ~out.overlapped /\ BagCardinality(inflight) > 0

\* C1: within one session the payloads carry v = 1, 2, 3, 4 in this order:
\* the first payload posted in a session is page 1 and every later one is the
\* page after the payload posted before it.
C1_PagesInOrder ==
    [][Issued =>
        out'.payload.v = (IF out.posted /\ out.current
                          THEN out.payload.v + 1 ELSE 1)]_vars

\* C2: when page n+1 of a session is posted after the exchange of page n has
\* settled with a response, its id and sig are the id and sig of that
\* response.
C2_TokenEchoed ==
    (/\ IssuedAfterSettlement
     /\ out.current
     /\ last.settled /\ last.status = "resolved" /\ last.current
     /\ out.payload.v = last.v + 1)
    => /\ out.payload.id = last.response.id
       /\ out.payload.sig = last.response.sig

C2_Witness ==
    /\ IssuedAfterSettlement
    /\ out.current
    /\ last.settled /\ last.status = "resolved" /\ last.current
    /\ out.payload.v = last.v + 1
    /\ out.payload.id = "id2"
    /\ out.payload.sig = "sig1"

\* C3: every page-1 payload has id = null and sig = null.
C3_Page1NullToken ==
    (out.posted /\ out.payload.v = 1)
    => (out.payload.id = Null /\ out.payload.sig = Null)

\* C4: the payload of page n+1 is not posted while an exchange for page n of
\* the session is outstanding, and a posted page n+1 carries a token that has
\* been received (page 1 excepted).
C4_StrictlySequential ==
    [][(Issued /\ out'.payload.v > 1) =>
        /\ ~\E x \in BagToSet(inflight) :
              x.current /\ x.v = out'.payload.v - 1
        /\ out'.payload.id # Null
        /\ out'.payload.sig # Null]_vars

\* C5: once the exchange of page k of the session has failed, no payload with
\* v > k is posted in that session.
C5_NoPageAfterFailure ==
    [][Issued =>
        ~(/\ last.settled /\ last.status = "rejected"
          /\ last.current
          /\ out'.payload.v > last.v)]_vars

\* C6: an HTTP success whose body lacks id or sig makes submit throw, and
\* submit returns a token only when the response has both, the token being
\* the id and sig of the response.
C6_MissingFieldFails ==
    last.settled =>
        /\ (/\ last.response.kind = "resolved"
            /\ (last.response.id = Absent \/ last.response.sig = Absent))
           => last.status = "rejected"
        /\ last.status = "resolved"
           => /\ last.response.id # Absent
              /\ last.response.sig # Absent
              /\ last.value = [id |-> last.response.id, sig |-> last.response.sig]

C6_Witness ==
    /\ last.settled
    /\ last.response.kind = "resolved"
    /\ last.response.id = "id1"
    /\ last.response.sig = Absent
    /\ last.status = "rejected"

\* C7: an exchange that fails reports one of the classified error kinds to
\* its caller.
C7_ClassifiedErrors ==
    (last.settled /\ last.status = "rejected") => last.error \in ErrorKinds

\* C8: a payload has done = true if and only if it is the payload of page 4.
C8_DoneIffPage4 ==
    out.posted => (out.payload.done <=> out.payload.v = 4)

C8_Witness ==
    /\ out.posted /\ out.payload.v = 4 /\ out.payload.done
    /\ last.settled /\ last.v = 3 /\ last.current /\ out.current

\* The session id is the same in every payload of a session: a payload of the
\* current session carries the session id of the client, which is the id
\* drawn when the session was opened.
SessionIdConstant ==
    /\ sessionId = drawn
    /\ (out.posted /\ out.current) => out.payload.dataId = sessionId

\* C9 (as stated): the session id is the same in every payload of a session,
\* and the first payload posted after a resetSession does not carry the
\* session id of the payload posted before it.
C9_SessionIdNeverReused ==
    /\ []SessionIdConstant
    /\ [][(Issued /\ out.posted /\ ~out.current)
           => out'.payload.dataId # out.payload.dataId]_vars

\* C9 (amended): the session id is the same in every payload of a session,
\* and resetSession replaces it by a newly drawn random id, which nothing
\* keeps distinct from the ids drawn before.
C9_SessionIdPerSession == SessionIdConstant /\ sessionId \in generateSessionId

C9_Witness ==
    /\ out.posted /\ out.current
    /\ last.settled /\ ~last.current
    /\ out.payload.dataId = sessionId

\* The host of a URL that starts with "https://": the characters up to the
\* next "/"
Host(url) ==
    LET rest == SubSeq(url, 9, Len(url))
        slashes == {i \in 1..Len(rest) : rest[i] = "/"}
        stop == IF slashes = {} THEN Len(rest) + 1
                ELSE CHOOSE i \in slashes : \A j \in slashes : i <= j
    IN SubSeq(rest, 1, stop - 1)

EndsWith(s, suffix) ==
    /\ Len(s) >= Len(suffix)
    /\ SubSeq(s, Len(s) - Len(suffix) + 1, Len(s)) = suffix

LocalMarket(url) == EndsWith(Host(url), DotDe)

\* C10: with the credentials configured, getProxyServer gives passwordDE
\* exactly for the targets whose domain ends in ".de" and passwordNonDE for
\* every other target.
C10_PasswordByDomainSuffix ==
    (proxyServer.called /\ proxyServer.password # Absent /\ proxyServer.target # NoUrl)
    => proxyServer.password =
          (IF LocalMarket(proxyServer.target) THEN config.passwordDE
           ELSE config.passwordNonDE)

\* C11: the proxy descriptor a run of the scheduler launches its browser with
\* carries the secret of the domain class of the run's target: passwordDE for
\* a target whose domain ends in ".de", passwordNonDE for any other target.
C11_RunCredentialByTarget ==
    (run.proxy.called /\ run.proxy.password # Absent)
    => run.proxy.password =
          (IF LocalMarket(run.url) THEN config.passwordDE ELSE config.passwordNonDE)

\* C12: within one session of the client, every payload goes out with the
\* proxy credential of the payload posted before it, whatever setCurrentUrl
\* has done to the proxy manager in between.
C12_SameCredentialAllPages ==
    [][(Issued /\ out.posted /\ out.current) => out'.auth = out.auth]_vars

C12_Witness ==
    /\ out.posted /\ out.current /\ out.payload.v = 4
    /\ last.settled /\ last.current /\ last.v = 3
    /\ currentUrl = UrlOpelFr
    /\ out.auth = [username |-> config.username, password |-> config.passwordDE]

\* The secret of the class a target requires
RequiredSecret(url) ==
    IF LocalMarket(url) THEN config.passwordDE ELSE config.passwordNonDE

\* The secret of the other class
OtherSecret(url) ==
    IF LocalMarket(url) THEN config.passwordNonDE ELSE config.passwordDE

\* C13: when the secret of the class the target requires is not configured,
\* no method returns a proxy descriptor or an agent for the target:
\* createProxyAgent throws, and getProxyServer and getStickyProxyServer do
\* not return.
C13_MissingSecretFails ==
    /\ ~(/\ proxyServer.called /\ proxyServer.target # NoUrl
         /\ RequiredSecret(proxyServer.target) = "")
    /\ ~(/\ sticky.called /\ sticky.target # NoUrl
         /\ RequiredSecret(sticky.target) = "")
    /\ (agent.called /\ agent.target # NoUrl /\ RequiredSecret(agent.target) = "")
       => agent.threw # Absent

\* C14: the password getProxyServer, getStickyProxyServer or createProxyAgent
\* gives for a target is never made from the secret of the class the target
\* does not belong to.
C14_NeverOtherClassSecret ==
    /\ (proxyServer.called /\ proxyServer.target # NoUrl /\ proxyServer.password # Absent)
       => proxyServer.password # OtherSecret(proxyServer.target)
    /\ (sticky.called /\ sticky.target # NoUrl /\ sticky.password # Absent)
       => sticky.password[1] # OtherSecret(sticky.target)
    /\ (agent.called /\ agent.target # NoUrl /\ agent.password # Absent)
       => agent.password # OtherSecret(agent.target)

\* C15: a sticky-session id handed out before a run ended is not the id
\* handed out by the first getStickyProxyServer call after the run ended.
C15_StickyIdNotAcrossRuns ==
    [][(/\ sticky.called /\ ~sticky.current /\ sticky.password # Absent
        /\ sticky'.called /\ sticky'.current /\ sticky'.password # Absent)
       => sticky'.password[3] # sticky.password[3]]_vars

\* A step in which executeTask(url) starts
Started(url) ==
    /\ now' = now
    /\ \/ /\ tasks' = tasks
          /\ \E entry \in BagToSet(pending.cron) :
                /\ entry.url = url
                /\ CopiesIn(entry, pending'.cron) < CopiesIn(entry, pending.cron)
       \/ /\ timers' = timers
          /\ \E t \in timers :
                t.taskId[1] = url /\ t.handle \in pending.interval \ pending'.interval
       \/ \E t \in timers' \ timers : t.taskId[1] = url

\* C16: a run for a target does not start less than 2 hours after the run
\* for the same target before it started.
C16_MinSpacing ==
    [][\A url \in getUrlsConfig :
          Started(url) =>
              (sinceStart[url] = Never \/ sinceStart[url] >= MinSpacingHours)]_vars

\* C17: the runs started in one day, over all targets, are at most 30.
C17_DailyCap == attemptsToday <= DailyCap

\* C18: no run for a target starts in the 24 hours after a run for that
\* target met a block or challenge.
C18_Suspension ==
    [][\A url \in getUrlsConfig :
          Started(url) => ~(blockedUrl = url /\ sinceBlock < SuspensionHours)]_vars

\* C19: a run is reported with status success only when the click that
\* submits each of the four pages landed.
C19_SuccessOnlyIfSubmitted ==
    report = "success" => \A n \in 1..4 : run.clicked[n]

\* C20: when executeTask has finished, the browser and the page it opened are
\* not open any more.
C20_ReleasedOnEveryPath ==
    run.phase = "done" => (browser # "open" /\ page # "open")

\* C21: once the process has exited on a shutdown signal, no timer is left to
\* fire, and the run that was in flight has reached its end and has released
\* its browser.
C21_ShutdownCompletesRuns ==
    exited =>
        /\ pending = NoPending /\ timers = {} /\ tasks = {}
        /\ run.phase \in {"idle", "done"}
        /\ browser # "open"

\* C22: generateDailySchedule returns, for every target, as many entries as
\* runsPerDay says, for every runsPerDay from 1 on.
C22_EntriesPerTarget ==
    generated.called =>
        \A u \in getUrlsConfig : Len(generated.entries[u]) = generated.runsPerDay

\* The minute of the day of an entry
MinuteOfDay(entry) == entry.hour * 60 + entry.minute

\* C23: in a schedule of generateDailySchedule the entry of window i has its
\* hour in start..end of the window and its minute in 0..59; the entries of
\* a target are in strictly increasing time in the order of the windows,
\* and no two of them have the same hour and minute.
C23_EntriesInDisjointWindows ==
    generated.called =>
        \A u \in getUrlsConfig :
            LET entries == generated.entries[u]
                windows == Windows(generated.runsPerDay)
            IN /\ Len(entries) = Len(windows)
               /\ \A i \in 1..Len(entries) :
                     /\ entries[i].hour \in windows[i].start..windows[i].end
                     /\ entries[i].minute \in 0..59
               /\ \A i \in 1..(Len(entries) - 1) :
                     MinuteOfDay(entries[i]) < MinuteOfDay(entries[i + 1])
               /\ \A i, j \in 1..Len(entries) :
                     i # j => <<entries[i].hour, entries[i].minute>>
                                 # <<entries[j].hour, entries[j].minute>>

\* The last minute of the first window and the first minute of the second
C23_Witness ==
    /\ generated.called /\ generated.runsPerDay = 3
    /\ generated.entries[UrlOpelDe][1].hour = 11
    /\ generated.entries[UrlOpelDe][1].minute = 59
    /\ generated.entries[UrlOpelDe][2].hour = 12
    /\ generated.entries[UrlOpelDe][2].minute = 0

\* C24: a timer of interval mode that still calls back belongs to a task
\* that was not stopped: its taskId is in intervalTasks, from which
\* stopIntervalTask(taskId) and stopAll() remove the tasks they stop.
C24_StoppedTaskStartsNoRun ==
    \A t \in timers : \E e \in intervalTasks : e.taskId = t.taskId

MaxProxyRetries == 3

\* C26: when the proxy connection of a run failed, executeTask has launched
\* a browser again at least once, and at most 3 times, before it ends.
C26_ProxyFailureRetried ==
    (run.phase = "done" /\ run.error = "proxy") =>
        run.launches \in 2..(1 + MaxProxyRetries)

\* C27: a runSurvey call does not reject, and the result it returns has the
\* status success or failed.
C27_RunSurveyNeverRejects ==
    /\ visit.settled # "rejected"
    /\ visit.settled = "returned" => visit.status \in {"success", "failed"}

\* C28: a tick of the failure monitor sends the alert exactly when entries
\* are recorded and more than half of them are failed.
C28_AlertIffOverHalf ==
    alert.ticked =>
        (alert.sent <=>
            (alert.totalAttempted > 0 /\ 2 * alert.failed > alert.totalAttempted))

\* Exactly half of the entries are failed
C28_Witness ==
    /\ alert.ticked /\ ~alert.sent
    /\ alert.totalAttempted = 4 /\ alert.failed = 2

\* Of the draws of Math.random(), how many give Values[i]
Frequency(i) ==
    Cardinality({random \in Hundredths :
                    weightedRandom(Values, weights, random) = Values[i]})

\* C29: weightedRandom returns the value in whose part of 0..totalWeight
\* Math.random() * totalWeight falls, the parts being as long as the
\* weights; over the draws of Math.random() the share of a value is within
\* 3 in 100 of weight / totalWeight.
C29_WeightedShare ==
    LET totalWeight == reduceSum(weights, Len(weights))
    IN /\ sample.called =>
             \E i \in 1..Len(Values) :
                 /\ sample.value = Values[i]
                 /\ \/ sample.random = 0 /\ i = 1
                    \/ /\ 100 * reduceSum(weights, i - 1) < sample.random * totalWeight
                       /\ sample.random * totalWeight <= 100 * reduceSum(weights, i)
       /\ \A i \in 1..Len(Values) :
             /\ Frequency(i) * totalWeight - 100 * weights[i] <= 3 * totalWeight
             /\ 100 * weights[i] - Frequency(i) * totalWeight <= 3 * totalWeight

\* Weights that add up to 5, and a draw in the part of the last value
C29_Witness ==
    /\ sample.called /\ weights = <<1, 1, 3>>
    /\ sample.random = 41 /\ sample.value = "v3"

\* The steps of a visit in the order of runSurvey and fillSurvey
VisitSteps ==
    <<"clear", "navigate", "wait", "trigger", "page1", "page2", "page3", "page4">>

StickyCall ==
    /\ sticky' # sticky
    /\ sticky'.current
    /\ sticky'.password # Absent

\* C31: a getStickyProxyServer call that follows another with no clearSession
\* between them carries the session id of the earlier call; the first call
\* after clearSession carries a generated id; and the sticky password is the
\* password getProxyServer returns for the same target, followed by
\* "_session-", the id, "_lifetime-" and the minutes.
C31_StickyIdKeptUntilCleared ==
    [][StickyCall =>
        /\ (sticky.called /\ sticky.password # Absent /\ proxySessionId # Null)
           => sticky'.password[3] = sticky.password[3]
        /\ proxySessionId = Null => sticky'.password[3] \in RandomSessionIds
        /\ \E sessionLifetime \in SessionLifetimes :
              sticky'.password =
                  <<getProxyServerResult(sticky'.target).password, "_session-",
                    proxySessionId', "_lifetime-", sessionLifetime>>]_vars

\* C32: the secret a run launches its browser with is the one the proxy
\* manager selects for the target of the run, whatever setCurrentUrl and
\* testTargetUrl calls another run has made on the shared proxy manager.
C32_RunSecretOfOwnTarget ==
    (run.proxy.called /\ run.proxy.password # Absent)
    => run.proxy.password = selectPassword(run.url)

\* C33: the stored token is whole: currentId and currentSig are both null or
\* both set, after any sequence of exchanges that succeed or fail and of
\* resetSession calls.
C33_TokenWhole == (currentId = Null) <=> (currentSig = Null)

\* The token of an exchange that succeeded has been cleared by resetSession
C33_Witness ==
    /\ last.settled /\ last.status = "resolved" /\ ~last.current
    /\ currentId = Null /\ currentSig = Null

\* A step in which submit() throws: an outstanding exchange settles as failed
SubmitThrows ==
    /\ BagCardinality(inflight') = BagCardinality(inflight) - 1
    /\ last'.status = "rejected"

\* C34: when submit() throws, currentId, currentSig and sessionId are what
\* they were before.
C34_FailureKeepsSessionState ==
    [][SubmitThrows =>
        /\ currentId' = currentId
        /\ currentSig' = currentSig
        /\ sessionId' = sessionId]_vars

\* An exchange of the session has failed and the token stored before is there
C34_Witness ==
    /\ last.settled /\ last.status = "rejected" /\ last.current
    /\ currentId = "id1" /\ currentSig = "sig1"

\* C35: an executeTask call that has ended has recorded one entry in the
\* report generator: not none, and not the entry of the survey and then the
\* entry of a failure.
C35_OneEntryPerTrigger == run.phase = "done" => run.recorded = 1

\* C36: clear() removes no result that the mail of a daily report did not
\* list: no result recorded while the report was being sent is discarded.
C36_NoResultDiscardedUnreported == delivery.discarded = 0

\* C37: when stopAll() has returned, no cron task and no interval timer that
\* was created through the scheduler is active.
C37_StopAllStopsEverything ==
    [][stopAllTimers => (cronJobs' = EmptyBag /\ timers' = {})]_vars

\* Of the tasks of the bag, one at most has a given taskId
OnePerKey(bag) ==
    \A a, b \in BagToSet(bag) :
        a.taskId = b.taskId => (a = b /\ CopiesIn(a, bag) = 1)

\* C39: under every taskId there is one active cron task, the one the map
\* holds, however often scheduleUrl or scheduleDailyReport was called with
\* that key; and one match of the clock makes it due once.
C39_OneCronTaskPerKey ==
    /\ OnePerKey(cronJobs)
    /\ OnePerKey(pending.cron)
    /\ BagToSet(cronJobs) = tasks

\* Two calls with the same key have been made: one task is stored and active
C39_Witness ==
    /\ cronCalls = 2
    /\ Cardinality(tasks) = 1
    /\ cronJobs = SetToBag(tasks)

\* C38: of the runs for one url, one at most is in progress.
C38_OneRunPerTarget == \A url \in getUrlsConfig : running[url] <= 1

\* C40: weightedRandom returns one of the values, and not a value of weight
\* 0 when some value has a weight above 0, whatever Math.random() returns.
C40_NoZeroWeightValue ==
    sample.called =>
        /\ \E i \in 1..Len(Values) : Values[i] = sample.value
        /\ (\E j \in 1..Len(Values) : weights[j] > 0)
           => \A i \in 1..Len(Values) : Values[i] = sample.value => weights[i] > 0
====
